---- MODULE Spec2Model ----
(***************************************************************************)
(* A model of the property estimator client (propertyestimator/client.py): *)
(* the assembly of the estimation options and the submission in            *)
(* request_estimate, and the retrieval of the results through a Request    *)
(* handle (asynchronous single query, synchronous polling loop).           *)
(***************************************************************************)
EXTENDS Integers, Sequences, FiniteSets, TLC

(***************************************************************************)
(* Bounds of the model.                                                    *)
(***************************************************************************)
\* The largest number of properties in a property set.
MaxProps == 2
\* The largest number of queries a scripted server answers "pending" to.
MaxPending == 2
\* The number of results() calls made on one handle.
MaxCalls == 2
\* The largest number of substance groups in a property set.
MaxGroups == 2

\* The depth of calls at which the interpreter raises RecursionError.
MaxDepth == 3

\* The per-call counters saturate here (above every count a claim reads).
MaxCount == MaxPending + 2

(***************************************************************************)
(* Values.                                                                 *)
(***************************************************************************)
\* Python's None where a string is expected (request ids, responses).
None == "None"
\* Python's None where an object (a record) is expected.
NoneObj == [kind |-> "None"]

Min(a, b) == IF a < b THEN a ELSE b
\* A counter that saturates at MaxCount.
Inc(n) == Min(n + 1, MaxCount)

\* dict[key] = value
Put(dict, key, value) ==
    [k \in DOMAIN dict \cup {key} |-> IF k = key THEN value ELSE dict[k]]

\* The empty dict.
EmptyDict == [k \in {} |-> NoneObj]

(***************************************************************************)
(* Collaborators of the client: the calculation layers, the registry of    *)
(* property types and the default workflow of each type and layer.         *)
(***************************************************************************)
SurrogateLayer == "SurrogateLayer"
ReweightingLayer == "ReweightingLayer"
SimulationLayer == "SimulationLayer"

Layers == {SurrogateLayer, ReweightingLayer, SimulationLayer}

\* The names of the property types the plugin registry knows.
registered_properties == {"Density", "DielectricConstant"}

\* The runtime types a property of a batch may have.
PropertyTypes == registered_properties \cup {"Unsupported"}

\* A WorkflowSchema: its protocols, each with its '.allow_merging' input.
WorkflowSchema(property_type, layer, protocols) ==
    [kind |-> "WorkflowSchema", property_type |-> property_type,
     layer |-> layer, protocols |-> protocols]

\* The default workflow of a property type for a layer, None where the type
\* does not support the layer. Every call builds a new schema object.
get_default_workflow_schema(type_name, calculation_layer) ==
    CASE type_name = "Density" /\ calculation_layer = SimulationLayer ->
           WorkflowSchema(type_name, calculation_layer,
                          [build_coordinates |-> [allow_merging |-> TRUE],
                           npt_production |-> [allow_merging |-> FALSE]])
      [] type_name = "Density" /\ calculation_layer = ReweightingLayer ->
           WorkflowSchema(type_name, calculation_layer,
                          [reweight |-> [allow_merging |-> TRUE]])
      [] type_name = "DielectricConstant" /\ calculation_layer = SimulationLayer ->
           WorkflowSchema(type_name, calculation_layer,
                          [extract_dielectric |-> [allow_merging |-> TRUE]])
      [] OTHER -> NoneObj

(***************************************************************************)
(* PropertyEstimatorOptions                                                *)
(***************************************************************************)
\* A default that tries the most expensive layer first.
DefaultLayers_SimulationFirst ==
    <<SimulationLayer, ReweightingLayer, SurrogateLayer>>

\* allowed_calculation_layers when the caller passes None.
DefaultLayers == <<SurrogateLayer, ReweightingLayer, SimulationLayer>>

\* A Python list, where None may stand in its place.
List(items) == [kind |-> "list", items |-> items]

\* PropertyEstimatorOptions.__init__
PropertyEstimatorOptions(allowed_calculation_layers, allow_protocol_merging) ==
    [kind |-> "PropertyEstimatorOptions",
     allowed_calculation_layers |->
         IF allowed_calculation_layers = NoneObj THEN DefaultLayers
         ELSE allowed_calculation_layers.items,
     workflow_schemas |-> EmptyDict,
     relative_uncertainty_tolerance |-> 1,
     allow_protocol_merging |-> allow_protocol_merging,
     gradient_properties |-> List(<<>>)]

(***************************************************************************)
(* PropertyEstimatorClient.request_estimate: the assembly of the options.  *)
(***************************************************************************)
\* A PhysicalPropertyDataSet: properties maps each substance tag (here the
\* position of the group, in iteration order) to the list of its properties.
PhysicalPropertyDataSet(properties) ==
    [kind |-> "PhysicalPropertyDataSet", properties |-> properties]

\* type(physical_property).__name__: a property is modelled by its type name.
TypeName(physical_property) == physical_property

\* Loops that visit the last group first.
RECURSIVE NestedOrder_LastGroupFirst(_)
NestedOrder_LastGroupFirst(groups) ==
    IF groups = <<>> THEN <<>>
    ELSE NestedOrder_LastGroupFirst(Tail(groups)) \o Head(groups)

\* The loops over property_set.properties visit the properties in this order.
RECURSIVE NestedOrder(_)
NestedOrder(groups) ==
    IF groups = <<>> THEN <<>> ELSE Head(groups) \o NestedOrder(Tail(groups))

\* The inner loop over workflow.protocols: the override of '.allow_merging'.
ForceAllowMerging(workflow, allow_protocol_merging) ==
    [workflow EXCEPT !.protocols =
        [name \in DOMAIN @ |->
            IF ~allow_protocol_merging
            THEN [@[name] EXCEPT !.allow_merging = FALSE]
            ELSE @[name]]]

\* A body that records a default only when it is a workflow.
RecordDefault_OnlyWorkflows(workflow_schemas, type_name, calculation_layer) ==
    IF get_default_workflow_schema(type_name, calculation_layer) = NoneObj
    THEN workflow_schemas
    ELSE Put(IF type_name \notin DOMAIN workflow_schemas
             THEN Put(workflow_schemas, type_name, EmptyDict)
             ELSE workflow_schemas,
             type_name,
             Put(IF type_name \notin DOMAIN workflow_schemas
                 THEN EmptyDict ELSE workflow_schemas[type_name],
                 calculation_layer,
                 get_default_workflow_schema(type_name, calculation_layer)))

\* The schema recorded for one layer: workflow_schemas[type_name][layer] is
\* set from the provider when the layer has no entry or a None entry.
RecordDefault(workflow_schemas, type_name, calculation_layer) ==
    LET with_type == IF type_name \notin DOMAIN workflow_schemas
                     THEN Put(workflow_schemas, type_name, EmptyDict)
                     ELSE workflow_schemas
    IN  IF \/ calculation_layer \notin DOMAIN with_type[type_name]
           \/ with_type[type_name][calculation_layer] = NoneObj
        THEN Put(with_type, type_name,
                 Put(with_type[type_name], calculation_layer,
                     get_default_workflow_schema(type_name, calculation_layer)))
        ELSE with_type

\* The workflow the rest of the layer's body works on.
LayerWorkflow(workflow_schemas, type_name, calculation_layer) ==
    get_default_workflow_schema(type_name, calculation_layer)

\* A call wrapped in a try block that drops the exception.
ValidateInterfaces_Swallowed(workflow, invalid) == None

\* Line 551, workflow.validate_interfaces(): the exception it raises (None
\* when none). invalid is the set of workflows the validator rejects.
ValidateInterfaces(workflow, invalid) ==
    IF workflow \in invalid THEN "Exception" ELSE None

\* The body of the loop over allowed_calculation_layers, for the layers from
\* position i on. st holds workflow_schemas, the workflow objects the body
\* passed to the validator (validated) and those it went on to override
\* (workflows); an exception of the validator ends the loop.
RECURSIVE AssembleLayers(_, _, _, _)
AssembleLayers(st, type_name, options, i) ==
    IF i > Len(options.allowed_calculation_layers) \/ st.raised # None THEN st
    ELSE LET calculation_layer == options.allowed_calculation_layers[i]
             recorded == RecordDefault(st.workflow_schemas, type_name,
                                       calculation_layer)
             workflow == LayerWorkflow(recorded, type_name, calculation_layer)
         IN  IF workflow = NoneObj
             THEN AssembleLayers([st EXCEPT !.workflow_schemas = recorded],
                                 type_name, options, i + 1)
             ELSE IF ValidateInterfaces(workflow, st.invalid) # None
             THEN [st EXCEPT !.workflow_schemas = recorded,
                             !.validated = Append(@, workflow),
                             !.raised = ValidateInterfaces(workflow,
                                                           st.invalid)]
             ELSE AssembleLayers(
                      [st EXCEPT !.workflow_schemas = recorded,
                                 !.validated = Append(@, workflow),
                                 !.workflows = Append(@,
                                     ForceAllowMerging(workflow,
                                         options.allow_protocol_merging))],
                      type_name, options, i + 1)

\* A loop that skips a type only when its entry is not empty.
SkipsType_NonEmpty(workflow_schemas, type_name) ==
    /\ type_name \in DOMAIN workflow_schemas
    /\ workflow_schemas[type_name] # EmptyDict

\* A loop that skips no type.
SkipsType_Never(workflow_schemas, type_name) == FALSE

\* Whether the loop skips a property of this type.
SkipsType(workflow_schemas, type_name) == type_name \in DOMAIN workflow_schemas

\* The loops over the property set, from property i of the nested order on.
\* st.raised is the exception that ended the loops, None when they completed.
RECURSIVE AssembleProperties(_, _, _, _)
AssembleProperties(st, properties, options, i) ==
    IF i > Len(properties) \/ st.raised # None THEN st
    ELSE LET physical_property == properties[i]
             type_name == TypeName(physical_property)
             appended == [st EXCEPT !.properties_list =
                                        Append(@, physical_property)]
         IN  IF type_name \notin registered_properties
             THEN [appended EXCEPT !.raised = "ValueError"]
             ELSE IF SkipsType(st.workflow_schemas, type_name)
             THEN AssembleProperties(appended, properties, options, i + 1)
             ELSE AssembleProperties(
                      AssembleLayers(appended, type_name, options, 1),
                      properties, options, i + 1)

\* A check that forgets the force field.
MissingArguments_NoForceField(property_set, force_field) ==
    property_set = NoneObj

\* Whether request_estimate rejects its arguments at once.
MissingArguments(property_set, force_field) ==
    property_set = NoneObj \/ force_field = None

\* A call that works on a copy of the options and hands the caller's object
\* back untouched when it fails.
Assemble_RolledBack(property_set, force_field, options, invalid) ==
    IF MissingArguments(property_set, force_field)
    THEN [raised |-> "ValueError", options |-> options,
          properties_list |-> <<>>, workflows |-> <<>>, validated |-> <<>>,
          submission |-> NoneObj]
    ELSE LET opts == IF options = NoneObj
                     THEN PropertyEstimatorOptions(NoneObj, TRUE)
                     ELSE options
             st == AssembleProperties(
                       [raised |-> None, properties_list |-> <<>>,
                        workflows |-> <<>>, validated |-> <<>>,
                        invalid |-> invalid,
                        workflow_schemas |-> opts.workflow_schemas],
                       NestedOrder(property_set.properties), opts, 1)
             assembled == [opts EXCEPT !.workflow_schemas = st.workflow_schemas]
         IN  [raised |-> st.raised,
              options |-> IF st.raised # None THEN opts ELSE assembled,
              properties_list |-> st.properties_list,
              workflows |-> st.workflows, validated |-> st.validated,
              submission |->
                  IF st.raised # None THEN NoneObj
                  ELSE [kind |-> "PropertyEstimatorSubmission",
                        properties |-> st.properties_list,
                        force_field |-> force_field,
                        options |-> assembled]]

\* request_estimate up to the construction of the submission: the exception
\* raised (None when none is), the options object the call worked on, the
\* flattened properties, the workflow objects passed to the validator,
\* those overridden and the submission. invalid is the set of workflows the
\* validator rejects.
Assemble(property_set, force_field, options, invalid) ==
    IF MissingArguments(property_set, force_field)
    THEN [raised |-> "ValueError", options |-> options,
          properties_list |-> <<>>, workflows |-> <<>>, validated |-> <<>>,
          submission |-> NoneObj]
    ELSE LET opts == IF options = NoneObj
                     THEN PropertyEstimatorOptions(NoneObj, TRUE)
                     ELSE options
             st == AssembleProperties(
                       [raised |-> None, properties_list |-> <<>>,
                        workflows |-> <<>>, validated |-> <<>>,
                        invalid |-> invalid,
                        workflow_schemas |-> opts.workflow_schemas],
                       NestedOrder(property_set.properties), opts, 1)
             assembled == [opts EXCEPT !.workflow_schemas = st.workflow_schemas]
         IN  [raised |-> st.raised, options |-> assembled,
              properties_list |-> st.properties_list,
              workflows |-> st.workflows, validated |-> st.validated,
              submission |->
                  IF st.raised # None THEN NoneObj
                  ELSE [kind |-> "PropertyEstimatorSubmission",
                        properties |-> st.properties_list,
                        force_field |-> force_field,
                        options |-> assembled]]

(***************************************************************************)
(* The network operations. net is what the transport and the server do to  *)
(* the one connection of the operation: the stage at which the stream      *)
(* closes ("refused" at connect, "closed_on_write", "closed_on_header",    *)
(* "closed_on_payload") or "ok"; length and payload are the response.      *)
(***************************************************************************)
PropertyEstimatorConnectionOptions ==
    [kind |-> "PropertyEstimatorConnectionOptions",
     server_address |-> "localhost", server_port |-> 8000]

\* PropertyEstimatorClient.__init__: the exception it raises (None when
\* none) and the client it leaves.
ClientInit(connection_options) ==
    IF connection_options.server_address = None
    THEN [raised |-> "ValueError", value |-> NoneObj]
    ELSE [raised |-> None,
          value |-> [kind |-> "PropertyEstimatorClient",
                     connection_options |-> connection_options]]

\* The request ids a handle may carry.
RequestIds == {"request-1", "request-2"}

\* PropertyEstimatorMessageTypes
Submission == 0
Query == 1

\* pack_int: the 4 bytes of an integer, big-endian.
pack_int(n) ==
    <<(n \div 16777216) % 256, (n \div 65536) % 256, (n \div 256) % 256,
      n % 256>>

\* unpack_int(...)[0]: the integer of 4 big-endian bytes.
unpack_int(bytes) ==
    bytes[1] * 16777216 + bytes[2] * 65536 + bytes[3] * 256 + bytes[4]

\* The number of bytes of the UTF-8 encoding of a text of the model.
ByteLen(text) ==
    CASE text \in RequestIds -> 9
      [] text = "Result" -> 6
      [] text = "Error" -> 5
      [] OTHER -> 0

\* A bytes object: what it encodes, and its length.
Bytes(content, length) ==
    [kind |-> "bytes", content |-> content, length |-> length]

\* request_id.encode()
encode(request_id) == Bytes(request_id, ByteLen(request_id))

\* submission.json().encode(): the JSON text of a submission grows with its
\* properties.
encoded_json(submission) ==
    Bytes(submission, 2 + Len(submission.properties))

\* A frame with a wrong length field.
Frame_NoLength(message_type, payload) ==
    [message_type |-> pack_int(message_type), length |-> pack_int(0),
     payload |-> payload]

\* message_type + length + payload, as the client writes it.
Frame(message_type, payload) ==
    [message_type |-> pack_int(message_type),
     length |-> pack_int(payload.length), payload |-> payload]

\* An operation that never closes its stream.
Wire_NeverClosed(value, raised, connects, opened, frames, closed, failed) ==
    [value |-> value, raised |-> raised, connects |-> connects,
     opened |-> opened, frames |-> frames, closed |-> 0,
     failed |-> failed]

\* What an operation did on the wire, and what it gave back.
Wire(value, raised, connects, opened, frames, closed, failed) ==
    [value |-> value, raised |-> raised, connects |-> connects,
     opened |-> opened, frames |-> frames, closed |-> closed,
     failed |-> failed]

\* What an operation wrote and read: the frame it passed to stream.write
\* (NoneObj when it did not get there), the bytes of the response header it
\* read, the length it decoded (-1 without a header), the calls of
\* read_bytes for a payload, the bytes of payload it got, the payloads it
\* decoded, and whether the except clause logged the failure.
Exchange(op, frame, header_bytes, length, payload_reads, payload_bytes, decodes, logged) ==
    [op |-> op, frame |-> frame, header_bytes |-> header_bytes,
     length |-> length, payload_reads |-> payload_reads,
     payload_bytes |-> payload_bytes, decodes |-> decodes, logged |-> logged]

\* self._tcp_client.connect(address, port): where the operation connects.
Connect(self) ==
    [address |-> self.connection_options.server_address,
     port |-> self.connection_options.server_port]

\* No except clause.
Uncaught_Everything(error) == error

\* 'except StreamClosedError': the exception that leaves the operation,
\* None when the clause catches it.
Uncaught(error) == IF error = "StreamClosedError" THEN None ELSE error

\* _send_calculations_to_server: the request id, None after a
\* StreamClosedError; json.loads raises on the empty payload of a length-0
\* response.
send_calculations_to_server(self, submission, net) ==
    LET frame == Frame(Submission, encoded_json(submission))
        length == unpack_int(pack_int(net.length))
    IN  [to |-> Connect(self)] @@
        CASE net.stage = "refused" ->
               Wire(None, Uncaught("StreamClosedError"), 1, 0, 0, 0, 1)
                 @@ Exchange("submission", NoneObj, 0, -1, 0, 0, 0, TRUE)
          [] net.stage = "closed_on_write" ->
               Wire(None, Uncaught("StreamClosedError"), 1, 1, 0, 0, 1)
                 @@ Exchange("submission", frame, 0, -1, 0, 0, 0, TRUE)
          [] net.stage = "closed_on_header" ->
               Wire(None, Uncaught("StreamClosedError"), 1, 1, 1, 0, 1)
                 @@ Exchange("submission", frame, 0, -1, 0, 0, 0, TRUE)
          [] net.stage = "closed_on_payload" ->
               Wire(None, Uncaught("StreamClosedError"), 1, 1, 1, 0, 1)
                 @@ Exchange("submission", frame, 4, length, 1, 0, 0, TRUE)
          [] net.stage = "ok" /\ net.length = 0 ->
               Wire(None, Uncaught("JSONDecodeError"), 1, 1, 1, 0, 0)
                 @@ Exchange("submission", frame, 4, length, 1, 0, 1, FALSE)
          [] OTHER ->
               Wire(net.payload, None, 1, 1, 1, 1, 0)
                 @@ Exchange("submission", frame, 4, length, 1, length, 1,
                             FALSE)

\* _send_query_server: the decoded response, None after a StreamClosedError
\* or a length-0 response; request_id.encode() raises when the id is None.
send_query_server(self, request_id, net) ==
    LET frame == Frame(Query, encode(request_id))
        length == unpack_int(pack_int(net.length))
    IN  [to |-> Connect(self)] @@
        CASE net.stage = "refused" ->
               Wire(None, Uncaught("StreamClosedError"), 1, 0, 0, 0, 1)
                 @@ Exchange("query", NoneObj, 0, -1, 0, 0, 0, TRUE)
          [] net.stage # "refused" /\ request_id = None ->
               Wire(None, Uncaught("AttributeError"), 1, 1, 0, 0, 0)
                 @@ Exchange("query", NoneObj, 0, -1, 0, 0, 0, FALSE)
          [] net.stage = "closed_on_write" ->
               Wire(None, Uncaught("StreamClosedError"), 1, 1, 0, 0, 1)
                 @@ Exchange("query", frame, 0, -1, 0, 0, 0, TRUE)
          [] net.stage = "closed_on_header" ->
               Wire(None, Uncaught("StreamClosedError"), 1, 1, 1, 0, 1)
                 @@ Exchange("query", frame, 0, -1, 0, 0, 0, TRUE)
          [] net.stage = "closed_on_payload" /\ net.length > 0 ->
               Wire(None, Uncaught("StreamClosedError"), 1, 1, 1, 0, 1)
                 @@ Exchange("query", frame, 4, length, 1, 0, 0, TRUE)
          [] OTHER ->
               Wire(IF length > 0 THEN net.payload ELSE None,
                    None, 1, 1, 1, 1, 0)
                 @@ IF length > 0
                    THEN Exchange("query", frame, 4, length, 1, length, 1,
                                  FALSE)
                    ELSE Exchange("query", frame, 4, length, 0, 0, 0, FALSE)

\* A handle whose own client talks to the default server.
OwnClient_Default(server_address, server_port) ==
    ClientInit(PropertyEstimatorConnectionOptions)

\* Lines 390-397: the client a handle builds when it is given none, from a
\* new connection options object with the handle's address and port.
OwnClient(server_address, server_port) ==
    ClientInit([PropertyEstimatorConnectionOptions
                    EXCEPT !.server_address = server_address,
                           !.server_port = server_port])

\* Request.__init__ (client NoneObj: None is passed, or nothing)
Request(request_id, connection_options, client) ==
    [kind |-> "Request", id |-> request_id,
     server_address |-> connection_options.server_address,
     server_port |-> connection_options.server_port,
     client |-> IF client = NoneObj
                THEN OwnClient(connection_options.server_address,
                               connection_options.server_port).value
                ELSE client]

\* Request.__init__ on whatever is passed as connection_options: reading
\* .server_address of anything but a connection options object raises.
RequestInit(request_id, connection_options, client) ==
    IF connection_options.kind # "PropertyEstimatorConnectionOptions"
    THEN [raised |-> "AttributeError", value |-> NoneObj]
    ELSE [raised |-> None,
          value |-> Request(request_id.value, connection_options, client)]

\* A value of a JSON document (a string, null or a number), as json.dumps
\* writes it and json.loads reads it back.
JsonValue(value) == [kind |-> "json", value |-> value]

\* Request.json: the three keys, each written from self._id.
json(self) ==
    [id |-> JsonValue(self.id), server_address |-> JsonValue(self.id),
     server_port |-> JsonValue(self.id)]

\* Request.from_json: the three values passed on as request_id,
\* connection_options and client.
from_json(json_dict) ==
    RequestInit(json_dict.id, json_dict.server_address, json_dict.server_port)

\* The properties of Request.
Accessors == {"id", "server_address", "server_port"}

(***************************************************************************)
(* The state methods of the wire models. A state is the dict __getstate__  *)
(* returns: a function from its keys.                                      *)
(***************************************************************************)
\* PropertyEstimatorSubmission.__init__: 'properties or []'.
PropertyEstimatorSubmission(properties, force_field, options) ==
    [kind |-> "PropertyEstimatorSubmission",
     properties |-> IF properties = NoneObj THEN <<>> ELSE properties.items,
     force_field |-> force_field,
     options |-> options]

\* PropertyEstimatorResult.__init__
PropertyEstimatorResult(result_id) ==
    [kind |-> "PropertyEstimatorResult", id |-> result_id,
     estimated_properties |-> EmptyDict,
     unsuccessful_properties |-> EmptyDict]

OptionsGetState(self) ==
    [allowed_calculation_layers |-> self.allowed_calculation_layers,
     workflow_schemas |-> self.workflow_schemas,
     relative_uncertainty_tolerance |-> self.relative_uncertainty_tolerance,
     allow_protocol_merging |-> self.allow_protocol_merging,
     gradient_properties |-> self.gradient_properties]

OptionsSetState(self, state) ==
    [self EXCEPT
        !.allowed_calculation_layers = state.allowed_calculation_layers,
        !.workflow_schemas = state.workflow_schemas,
        !.relative_uncertainty_tolerance = state.relative_uncertainty_tolerance,
        !.allow_protocol_merging = state.allow_protocol_merging,
        !.gradient_properties = state.gradient_properties]

SubmissionGetState(self) ==
    [properties |-> self.properties, options |-> self.options,
     force_field |-> self.force_field]

SubmissionSetState(self, state) ==
    [self EXCEPT !.properties = state.properties,
                 !.options = state.options,
                 !.force_field = state.force_field]

\* The key of the id is written 'id:' by both state methods.
ResultGetState(self) ==
    ("id:" :> self.id)
      @@ [estimated_properties |-> self.estimated_properties,
          unsuccessful_properties |-> self.unsuccessful_properties]

ResultSetState(self, state) ==
    [self EXCEPT !.id = state["id:"],
                 !.estimated_properties = state.estimated_properties,
                 !.unsuccessful_properties = state.unsuccessful_properties]

ConnectionOptionsGetState(self) ==
    [server_address |-> self.server_address, server_port |-> self.server_port]

\* A __setstate__ that restores the address only.
ConnectionOptionsSetState_AddressOnly(self, state) ==
    [self EXCEPT !.server_address = state.server_address]

ConnectionOptionsSetState(self, state) ==
    [self EXCEPT !.server_address = state.server_address,
                 !.server_port = state.server_port]

\* self.__getstate__()
GetStateOf(self) ==
    CASE self.kind = "PropertyEstimatorOptions" -> OptionsGetState(self)
      [] self.kind = "PropertyEstimatorSubmission" -> SubmissionGetState(self)
      [] self.kind = "PropertyEstimatorResult" -> ResultGetState(self)
      [] OTHER -> ConnectionOptionsGetState(self)

\* self.__setstate__(state): the object afterwards.
SetStateOf(self, state) ==
    CASE self.kind = "PropertyEstimatorOptions" -> OptionsSetState(self, state)
      [] self.kind = "PropertyEstimatorSubmission" ->
           SubmissionSetState(self, state)
      [] self.kind = "PropertyEstimatorResult" -> ResultSetState(self, state)
      [] OTHER -> ConnectionOptionsSetState(self, state)

\* type(self)(): a new object of the class, every argument at its default.
Fresh(self) ==
    CASE self.kind = "PropertyEstimatorOptions" ->
           PropertyEstimatorOptions(NoneObj, TRUE)
      [] self.kind = "PropertyEstimatorSubmission" ->
           PropertyEstimatorSubmission(NoneObj, None, NoneObj)
      [] self.kind = "PropertyEstimatorResult" -> PropertyEstimatorResult("")
      [] OTHER -> PropertyEstimatorConnectionOptions

(***************************************************************************)
(* The state.                                                              *)
(***************************************************************************)
VARIABLES
    args,        \* the arguments of request_estimate, as the caller passes them
    estimate,    \* what request_estimate assembled (Assemble's record)
    request,     \* the Request handle request_estimate returned, or NoneObj
    server,      \* the server's job: the queries it still answers "pending"
                 \* to (-1: all of them) and the payload it answers afterwards
    pc,          \* where the client is
    call,        \* the arguments of the results() call in progress
    response,    \* _retrieve_estimate's local response
    should_run,  \* _retrieve_estimate's local should_run
    result,      \* what the last results() call returned
    raised,      \* the exception the last operation raised, None when none
    io,          \* what the current operation did on the wire so far
    calls,       \* the number of results() calls made
    script,      \* the server's job when the current results() call began
    rerun,       \* what a second request_estimate with the same arguments
                 \* and the same options object assembled, NoneObj before it
    restored,    \* what Request.from_json(request.json()) gave, NoneObj
                 \* before it is evaluated
    access,      \* the read of a property of the handle in progress or
                 \* ended, NoneObj before any
    resolved,    \* the number of the results() call in which a query on
                 \* the handle first got a non-pending response, 0 before
    client,      \* what PropertyEstimatorClient(connection_options) gave
                 \* the caller (ClientInit's record), NoneObj before it
    validator,   \* the workflows validate_interfaces rejects
    pickled      \* a wire model taken through its state methods: the
                 \* object, its state, the object recreated from the state
                 \* and that one's state (NoneObj before each step);
                 \* NoneObj when no object is

vars == <<args, estimate, request, server, pc, call, response, should_run,
          result, raised, io, calls, script, rerun, restored, access,
          resolved, client, validator, pickled>>

NoIO == [connects |-> 0, opened |-> 0, frames |-> 0, closed |-> 0,
         failed |-> 0, sleeps |-> 0, queries |-> 0, empty |-> 0,
         last |-> NoneObj]

\* The counters of an operation after one more network operation w, which
\* becomes the last one.
AddWire(counters, w) ==
    [counters EXCEPT !.last = w,
                     !.connects = Min(@ + w.connects, MaxCount),
                     !.opened = Min(@ + w.opened, MaxCount),
                     !.frames = Min(@ + w.frames, MaxCount),
                     !.closed = Min(@ + w.closed, MaxCount),
                     !.failed = Min(@ + w.failed, MaxCount)]

NoEstimate == [raised |-> None, options |-> NoneObj, properties_list |-> <<>>,
               workflows |-> <<>>, validated |-> <<>>,
               submission |-> NoneObj]

NoCall == [synchronous |-> FALSE, polling_interval |-> 0]

(***************************************************************************)
(* The inputs.                                                             *)
(***************************************************************************)
SeqsUpTo(S, n) == UNION {[1..k -> S] : k \in 0..n}

\* The property sets of at most MaxGroups groups and MaxProps properties.
PropertySets ==
    {PhysicalPropertyDataSet(groups) :
        groups \in {gs \in SeqsUpTo(SeqsUpTo(PropertyTypes, MaxProps), MaxGroups) :
                       Len(NestedOrder(gs)) <= MaxProps}}

\* A set with a supported type before a property of an unsupported type and
\* another supported type after it.
InterruptedSet ==
    PhysicalPropertyDataSet(
        <<<<"Density">>, <<"Unsupported", "DielectricConstant">>>>)

ForceField == "smirnoff99Frosst"

\* A workflow the caller wrote.
CallerWorkflow(type_name) ==
    WorkflowSchema(type_name, SimulationLayer,
                   [custom |-> [allow_merging |-> TRUE]])

\* What the caller puts under workflow_schemas[type_name] before the call:
\* nothing, an empty dict, or a workflow of their own.
CallerEntry(type_name, choice) ==
    CASE choice = "absent" -> EmptyDict
      [] choice = "empty" -> (type_name :> EmptyDict)
      [] OTHER -> (type_name :> (SimulationLayer :> CallerWorkflow(type_name)))

CallerSchemas ==
    {CallerEntry("Density", d) @@ CallerEntry("Unsupported", u) :
        d \in {"absent", "empty", "custom"}, u \in {"absent", "custom"}}

\* The allowed_calculation_layers a caller passes: None (the default
\* list), both orders of a pair, a list naming a layer no type of the
\* registry supports, a single layer and the empty list.
LayerChoices ==
    {NoneObj, List(<<SimulationLayer, ReweightingLayer>>),
     List(<<ReweightingLayer, SimulationLayer>>),
     List(<<SimulationLayer, SurrogateLayer>>),
     List(<<ReweightingLayer>>), List(<<>>)}

\* The options objects a caller passes: None, or an object constructed and
\* then given workflow_schemas entries.
OptionsSets ==
    {NoneObj} \cup
    {[PropertyEstimatorOptions(layers, merging)
         EXCEPT !.workflow_schemas = schemas] :
        layers \in LayerChoices, merging \in BOOLEAN, schemas \in CallerSchemas}

Arguments(property_sets, force_fields, options_sets) ==
    [property_set : property_sets, force_field : force_fields,
     options : options_sets]

\* Every combination of arguments, for the assembly.
WideArguments ==
    Arguments({NoneObj, InterruptedSet} \cup PropertySets,
              {None, ForceField}, OptionsSets)

\* A plain submission, for the life of the handle it gives.
NarrowArguments ==
    Arguments({PhysicalPropertyDataSet(<<<<"Density">>>>)}, {ForceField},
              {NoneObj})

\* The id the server gives to the submission of the model.
AssignedIds == {"request-1"}

\* What the transport and the server do to a submission.
SubmitNets ==
    {[stage |-> st, length |-> 0, payload |-> None] :
        st \in {"refused", "closed_on_write", "closed_on_header", "ok"}} \cup
    {[stage |-> st, length |-> ByteLen(id) + 2, payload |-> id] :
        st \in {"closed_on_payload", "ok"}, id \in AssignedIds}

Stages == {"refused", "closed_on_write", "closed_on_header",
           "closed_on_payload", "ok"}

\* The server's jobs: pending_left queries are answered with length 0 (all
\* of them when it is -1), the later ones with the payload.
ServerJobs == [pending_left : -1..MaxPending, answer : {"Result", "Error"}]

\* The server's response to the next query.
Answer(job) ==
    IF job.pending_left = 0
    THEN [length |-> ByteLen(job.answer), payload |-> job.answer]
    ELSE [length |-> 0, payload |-> None]

\* The job after the server has answered one more query.
Answered(job) ==
    IF job.pending_left > 0 THEN [job EXCEPT !.pending_left = @ - 1] ELSE job

PollingIntervals == {-1, 0, 5}

\* The connection options a handle may be made with.
ConnectionOptionsSets ==
    {[PropertyEstimatorConnectionOptions EXCEPT !.server_address = address,
                                                !.server_port = port] :
        address \in {"localhost", "10.0.0.1"}, port \in {8000, 8001}}

\* The submissions, as request_estimate or a caller builds them.
SubmissionSets ==
    {PropertyEstimatorSubmission(properties, force_field, options) :
        properties \in {NoneObj, List(<<"Density">>),
                        List(<<"DielectricConstant", "Density">>)},
        force_field \in {None, ForceField},
        options \in {NoneObj, PropertyEstimatorOptions(NoneObj, TRUE),
                     PropertyEstimatorOptions(List(<<SimulationLayer>>),
                                              FALSE)}}

\* The results a server sends: the properties estimated and those that
\* failed, by name.
ResultSets ==
    {[PropertyEstimatorResult(result_id)
         EXCEPT !.estimated_properties = estimated,
                !.unsuccessful_properties = unsuccessful] :
        result_id \in RequestIds \cup {""},
        estimated \in {EmptyDict, "Density" :> "estimated"},
        unsuccessful \in {EmptyDict, "DielectricConstant" :> "failed"}}

\* The connection options a client may be made with: the address given,
\* empty, or None.
ClientOptionsSets ==
    {[PropertyEstimatorConnectionOptions EXCEPT !.server_address = address,
                                                !.server_port = port] :
        address \in {"localhost", "10.0.0.1", "", None},
        port \in {8000, 8001}}

(***************************************************************************)
(* The operations.                                                         *)
(***************************************************************************)
TypeOK ==
    /\ pc \in {"start", "estimate_raised", "idle", "loop", "query", "done",
               "results_raised"}
    /\ server \in ServerJobs
    /\ calls \in 0..MaxCalls
    /\ should_run \in BOOLEAN
    /\ response \in {None, "Result", "Error"}
    /\ result \in {None, "Result", "Error"}

\* The states in which the caller is at position.
InitState(arguments, jobs, clients, objects, validators, position) ==
    /\ args \in arguments
    /\ validator \in validators
    /\ client \in clients
    /\ pickled \in objects
    /\ estimate = NoEstimate
    /\ request = NoneObj
    /\ server \in jobs
    /\ script = server
    /\ pc = position
    /\ call = NoCall
    /\ response = None
    /\ should_run = FALSE
    /\ result = None
    /\ raised = None
    /\ io = NoIO
    /\ calls = 0
    /\ rerun = NoneObj
    /\ restored = NoneObj
    /\ access = NoneObj
    /\ resolved = 0

\* The states before request_estimate is called, the caller holding a
\* client made with the default connection options.
InitWith(arguments, jobs) ==
    InitState(arguments, jobs, {ClientInit(PropertyEstimatorConnectionOptions)},
              {NoneObj}, {{}}, "start")

\* request_estimate from the assembled record a on: the submission is sent
\* and the Request handle is built.
Submit(a) ==
    \E net \in SubmitNets :
        LET self == client.value
            w == send_calculations_to_server(self, a.submission, net)
        IN  IF a.raised # None
            THEN /\ raised' = a.raised
                 /\ request' = NoneObj
                 /\ io' = NoIO
                 /\ pc' = "estimate_raised"
            ELSE IF w.raised # None
            THEN /\ raised' = w.raised
                 /\ request' = NoneObj
                 /\ io' = AddWire(NoIO, w)
                 /\ pc' = "estimate_raised"
            ELSE /\ raised' = None
                 /\ request' = Request(w.value, self.connection_options,
                                       self)
                 /\ io' = AddWire(NoIO, w)
                 /\ pc' = "idle"

\* request_estimate(property_set, force_field, options)
RequestEstimate ==
    /\ pc = "start"
    /\ client # NoneObj
    /\ client.raised = None
    /\ LET a == Assemble(args.property_set, args.force_field, args.options,
                         validator)
       IN  estimate' = a /\ Submit(a)
    /\ UNCHANGED <<args, server, call, response, should_run, result, calls,
                   script, rerun,
                   restored, access, resolved, client,
                   pickled,
                   validator>>

\* The options object the caller holds after the first call: the one they
\* passed, as the call left it (None when they passed None).
CallerOptions ==
    IF args.options = NoneObj THEN NoneObj ELSE estimate.options

\* request_estimate(property_set, force_field, options) a second time, with
\* the same property set and the same options object.
RequestEstimateAgain ==
    /\ pc \in {"idle", "estimate_raised"}
    /\ rerun = NoneObj
    /\ LET a == Assemble(args.property_set, args.force_field, CallerOptions,
                         validator)
       IN  rerun' = a /\ Submit(a)
    /\ UNCHANGED <<args, estimate, server, call, response, should_run, result,
                   calls, script, restored, access, resolved, client,
                   pickled,
                   validator>>

\* One run of _send_query_server against the server, the stream closing at
\* stage (or not at all): the wire record and the server's job afterwards.
QueryWire(stage) ==
    send_query_server(request.client, request.id,
                      [stage |-> stage] @@ Answer(server))

ServerAfter(stage, w) ==
    IF w.frames = 1 /\ stage \in {"closed_on_payload", "ok"}
    THEN Answered(server) ELSE server

\* The counters after one query.
AddQuery(counters, w) ==
    [AddWire(counters, w) EXCEPT
        !.queries = Inc(@),
        !.empty = IF w.raised = None /\ w.failed = 0 /\ w.value = None
                  THEN Inc(@) ELSE @]

\* resolved after the query w of results() call number n.
ResolvedAfter(w, n) ==
    IF resolved = 0 /\ w.raised = None /\ w.value # None THEN n ELSE resolved

\* A call that always polls.
IsAsynchronous_Never(synchronous) == FALSE

\* Line 601: whether the call takes the asynchronous path.
IsAsynchronous(synchronous) == synchronous = FALSE

\* No assertion.
AssertPollingInterval_Dropped(polling_interval) == TRUE

\* Line 604: the assertion on the polling interval.
AssertPollingInterval(polling_interval) == polling_interval >= 0

\* A loop that yields to the scheduler even when the interval is zero.
SleepsFirst_NonNegative(polling_interval) == polling_interval >= 0

\* Line 611: whether the loop sleeps before the query.
SleepsFirst(polling_interval) == polling_interval > 0

\* The test of the response inverted.
ShouldRunAfter_Inverted(server_response) == server_response # None

\* Lines 616-620: should_run after the query of one iteration.
ShouldRunAfter(server_response) == server_response = None

\* Request.results(synchronous, polling_interval) up to the first await of
\* the synchronous loop; the whole call on the asynchronous path. The
\* caller passes one of synchronicities and one of intervals.
ResultsWith(synchronicities, intervals) ==
    /\ pc \in {"idle", "done", "results_raised"}
    /\ calls < MaxCalls
    /\ calls' = calls + 1
    /\ script' = server
    /\ \E synchronous \in synchronicities,
          polling_interval \in intervals :
        /\ call' = [synchronous |-> synchronous,
                    polling_interval |-> polling_interval]
        /\ IF IsAsynchronous(synchronous)
           THEN \E stage \in Stages :
                  LET w == QueryWire(stage)
                  IN  /\ io' = AddQuery(NoIO, w)
                      /\ server' = ServerAfter(stage, w)
                      /\ raised' = w.raised
                      /\ result' = w.value
                      /\ resolved' = ResolvedAfter(w, calls + 1)
                      /\ pc' = IF w.raised # None THEN "results_raised"
                               ELSE "done"
                      /\ UNCHANGED <<response, should_run>>
           ELSE IF ~AssertPollingInterval(polling_interval)
           THEN /\ raised' = "AssertionError"
                /\ pc' = "results_raised"
                /\ io' = NoIO
                /\ result' = None
                /\ UNCHANGED <<server, response, should_run, resolved>>
           ELSE /\ raised' = None
                /\ pc' = "loop"
                /\ io' = NoIO
                /\ result' = None
                /\ response' = None
                /\ should_run' = TRUE
                /\ UNCHANGED <<server, resolved>>
    /\ UNCHANGED <<args, estimate, request, rerun, restored, access, client,
                   pickled,
                   validator>>

Results == ResultsWith(BOOLEAN, PollingIntervals)

\* request.results(): synchronous and polling_interval at their defaults,
\* on a handle the caller has not examined.
AsyncResults ==
    /\ restored = NoneObj
    /\ access = NoneObj
    /\ ResultsWith({FALSE}, {5})

\* The sleep of one iteration of the synchronous loop.
SyncSleep ==
    /\ pc = "loop"
    /\ should_run
    /\ SleepsFirst(call.polling_interval)
    /\ io' = [io EXCEPT !.sleeps = Inc(@)]
    /\ pc' = "query"
    /\ UNCHANGED <<args, estimate, request, server, call, response,
                   should_run, result, raised, calls, script, rerun,
                   restored, access, resolved, client,
                   pickled,
                   validator>>

\* The query of one iteration of the synchronous loop, and its test.
SyncQuery ==
    /\ \/ pc = "query"
       \/ pc = "loop" /\ should_run /\ ~SleepsFirst(call.polling_interval)
    /\ \E stage \in Stages :
        LET w == QueryWire(stage)
        IN  /\ io' = AddQuery(io, w)
            /\ server' = ServerAfter(stage, w)
            /\ resolved' = ResolvedAfter(w, calls)
            /\ raised' = w.raised
            /\ IF w.raised # None
               THEN /\ pc' = "results_raised"
                    /\ UNCHANGED <<response, should_run>>
               ELSE /\ pc' = "loop"
                    /\ response' = w.value
                    /\ should_run' = ShouldRunAfter(w.value)
    /\ UNCHANGED <<args, estimate, request, call, result, calls, script,
                   rerun, restored, access, client,
                   pickled,
                   validator>>

\* The end of the synchronous loop: return response.
SyncReturn ==
    /\ pc = "loop"
    /\ ~should_run
    /\ result' = response
    /\ pc' = "done"
    /\ UNCHANGED <<args, estimate, request, server, call, response,
                   should_run, raised, io, calls, script,
                   rerun, restored, access, resolved, client,
                   pickled,
                   validator>>

\* PropertyEstimatorClient(connection_options), or PropertyEstimatorClient()
\* when connection_options is the default object.
ConstructClient ==
    /\ client = NoneObj
    /\ \E connection_options \in ClientOptionsSets :
          client' = ClientInit(connection_options)
    /\ UNCHANGED <<args, estimate, request, server, pc, call, response,
                   should_run, result, raised, io, calls, script, rerun,
                   restored, access, resolved, pickled,
                   validator>>

\* Request(request_id, connection_options), or
\* Request(request_id, connection_options, client) with the client the
\* caller holds.
ConstructRequest ==
    /\ pc = "start"
    /\ request = NoneObj
    /\ \E request_id \in RequestIds \cup {None},
          connection_options \in ConnectionOptionsSets,
          own \in BOOLEAN :
          /\ own \/ (client # NoneObj /\ client.raised = None)
          /\ request' = Request(request_id, connection_options,
                                IF own THEN NoneObj ELSE client.value)
    /\ pc' = "idle"
    /\ UNCHANGED <<args, estimate, server, call, response, should_run,
                   result, raised, io, calls, script, rerun, restored,
                   access, resolved, client,
                   pickled,
                   validator>>

\* Request.from_json(request.json())
RoundTrip ==
    /\ request # NoneObj
    /\ pc = "idle"
    /\ restored = NoneObj
    /\ restored' = from_json(json(request))
    /\ UNCHANGED <<args, estimate, request, server, pc, call, response,
                   should_run, result, raised, io, calls, script, rerun,
                   access, resolved, client,
                   pickled,
                   validator>>

\* request.<name>: the getter of the property is entered.
GetProperty ==
    /\ request # NoneObj
    /\ pc = "idle"
    /\ access = NoneObj
    /\ \E name \in Accessors :
          access' = [name |-> name, depth |-> 1, raised |-> None]
    /\ UNCHANGED <<args, estimate, request, server, pc, call, response,
                   should_run, result, raised, io, calls, script, rerun,
                   restored, resolved, client,
                   pickled,
                   validator>>

\* The body of the getter: 'return self.<name>' reads the same property,
\* which enters the getter again, until the interpreter gives up.
PropertyBody ==
    /\ access # NoneObj
    /\ access.raised = None
    /\ access' = IF access.depth < MaxDepth
                 THEN [access EXCEPT !.depth = @ + 1]
                 ELSE [access EXCEPT !.raised = "RecursionError"]
    /\ UNCHANGED <<args, estimate, request, server, pc, call, response,
                   should_run, result, raised, io, calls, script, rerun,
                   restored, resolved, client,
                   pickled,
                   validator>>

\* property_state = x.__getstate__()
GetState ==
    /\ pickled # NoneObj
    /\ pickled.state = NoneObj
    /\ pickled' = [pickled EXCEPT !.state = GetStateOf(pickled.original)]
    /\ UNCHANGED <<args, estimate, request, server, pc, call, response,
                   should_run, result, raised, io, calls, script, rerun,
                   restored, access, resolved, client,
                   validator>>

\* recreated = type(x)(); recreated.__setstate__(property_state)
SetState ==
    /\ pickled # NoneObj
    /\ pickled.state # NoneObj
    /\ pickled.recreated = NoneObj
    /\ pickled' = [pickled EXCEPT
                      !.recreated = SetStateOf(Fresh(pickled.original),
                                               pickled.state)]
    /\ UNCHANGED <<args, estimate, request, server, pc, call, response,
                   should_run, result, raised, io, calls, script, rerun,
                   restored, access, resolved, client,
                   validator>>

\* recreated_state = recreated.__getstate__()
GetRecreatedState ==
    /\ pickled # NoneObj
    /\ pickled.recreated # NoneObj
    /\ pickled.recreated_state = NoneObj
    /\ pickled' = [pickled EXCEPT
                      !.recreated_state = GetStateOf(pickled.recreated)]
    /\ UNCHANGED <<args, estimate, request, server, pc, call, response,
                   should_run, result, raised, io, calls, script, rerun,
                   restored, access, resolved, client,
                   validator>>

(***************************************************************************)
(* The specifications.                                                     *)
(***************************************************************************)
Init == InitWith(NarrowArguments, ServerJobs)

Next ==
    \/ RequestEstimate
    \/ Results
    \/ SyncSleep
    \/ SyncQuery
    \/ SyncReturn

\* A submission and the life of its handle.
Spec == Init /\ [][Next]_vars

\* The same, the client's code running on: a sleep ends, a query ends.
FairSpec ==
    Spec /\ WF_vars(SyncSleep) /\ WF_vars(SyncQuery) /\ WF_vars(SyncReturn)

InitAssembly ==
    InitWith(WideArguments, {[pending_left |-> 0, answer |-> "Result"]})

NextAssembly ==
    \/ RequestEstimate
    \/ RequestEstimateAgain

\* request_estimate on every combination of arguments.
AssemblySpec == InitAssembly /\ [][NextAssembly]_vars

\* Before the caller has a client or a handle.
InitHandle ==
    InitState(NarrowArguments, {[pending_left |-> 0, answer |-> "Result"]},
              {NoneObj}, {NoneObj}, {{}}, "start")

NextHandle ==
    \/ ConstructClient
    \/ ConstructRequest
    \/ RequestEstimate
    \/ AsyncResults
    \/ RoundTrip
    \/ GetProperty
    \/ PropertyBody

\* A client and a Request handle from construction on: the handle's
\* queries, its serialisation and its properties.
HandleSpec == InitHandle /\ [][NextHandle]_vars

\* The default workflows of the registry.
DefaultWorkflows ==
    {get_default_workflow_schema(type_name, calculation_layer) :
        type_name \in registered_properties, calculation_layer \in Layers}
      \ {NoneObj}

\* The options objects of the validation: None, or an object with one of
\* two lists of layers.
ValidationOptions ==
    {options \in OptionsSets :
        options # NoneObj
            => options.allowed_calculation_layers
                   \in {DefaultLayers, <<SimulationLayer, ReweightingLayer>>}}

InitValidation ==
    InitState(Arguments(PropertySets, {ForceField}, ValidationOptions),
              {[pending_left |-> 0, answer |-> "Result"]},
              {ClientInit(PropertyEstimatorConnectionOptions)}, {NoneObj},
              SUBSET DefaultWorkflows, "start")

NextValidation ==
    \/ RequestEstimate

\* request_estimate with a validator that rejects some of the default
\* workflows.
ValidationSpec == InitValidation /\ [][NextValidation]_vars

\* The wire models a caller round-trips.
WireModels ==
    (OptionsSets \ {NoneObj}) \cup SubmissionSets \cup ResultSets
        \cup ClientOptionsSets

InitStateMethods ==
    InitState(NarrowArguments, {[pending_left |-> 0, answer |-> "Result"]},
              {NoneObj},
              {[original |-> x, state |-> NoneObj, recreated |-> NoneObj,
                recreated_state |-> NoneObj] : x \in WireModels},
              {{}}, "start")

NextStateMethods ==
    \/ GetState
    \/ SetState
    \/ GetRecreatedState

\* A wire model through __getstate__, __setstate__ on a fresh object, and
\* __getstate__ of that one.
StateMethodsSpec == InitStateMethods /\ [][NextStateMethods]_vars

(***************************************************************************)
(* The properties of the retrieval (Spec, FairSpec).                       *)
(***************************************************************************)
\* The handle carries a request id (a string, as results() expects).
HasId == request # NoneObj /\ request.id # None

\* A results() call is in progress or has ended.
Called == calls > 0

\* The same, on a handle that carries a request id.
CalledWithId == Called /\ HasId

Payloads == {"Result", "Error"}

\* C1: synchronous retrieval (polling_interval >= 0) returns exactly the
\* first non-absent response of _send_query_server: once the loop holds a
\* non-absent response its only step is to return it, with no further query,
\* sleep or exception; the returned value is the server's payload, a Result
\* or an error record alike, and every earlier query of the call was absent.
C1_ReturnsFirstResponse ==
    /\ [][(Called /\ call.synchronous /\ pc = "loop" /\ response # None)
            => (pc' = "done" /\ result' = response /\ io' = io
                /\ raised' = None /\ server' = server)]_vars
    /\ [](Called /\ call.synchronous /\ pc = "done"
            => /\ result \in Payloads
               /\ result = response
               /\ result = server.answer
               /\ raised = None
               /\ io.queries < MaxCount
                    => io.queries = io.empty + io.failed + 1)

\* C1, its case: a synchronous call returned an error record it got on a
\* later query than the first.
C1_Witness ==
    /\ Called /\ call.synchronous /\ call.polling_interval >= 0
    /\ pc = "done" /\ result = "Error" /\ io.queries >= 2

\* C2: asynchronous retrieval of a request id makes exactly one query round
\* trip per call, never sleeps and returns the decoded response or None,
\* whatever the server and the transport do (pending, answered, connection
\* closed).
C2_AsyncOneQuery ==
    (CalledWithId /\ ~call.synchronous)
        => /\ pc = "done"
           /\ raised = None
           /\ io.queries = 1
           /\ io.connects = 1
           /\ io.frames <= 1
           /\ io.sleeps = 0
           /\ result \in {None, script.answer}
           /\ (result # None) <=> (script.pending_left = 0 /\ io.failed = 0)

\* C2, its case: an asynchronous call whose connection was closed returned
\* None after its one query.
C2_Witness ==
    /\ CalledWithId /\ ~call.synchronous /\ pc = "done"
    /\ io.failed = 1 /\ result = None /\ script.pending_left = 0

\* C3 as stated: with a server that answers every query with length 0, the
\* synchronous path too returns "pending" (unless a connection fails).
C3_SyncReturnsPending ==
    (CalledWithId /\ call.synchronous /\ pc = "loop" /\ script.pending_left = -1)
        ~> ((pc = "done" /\ result = None) \/ io.failed > 0)

\* C3 amended: with a server that answers every query for the request id
\* with length 0, the asynchronous path returns None (pending) after its
\* query; the synchronous path (polling_interval >= 0) observes None on
\* every query and does not return.
C3_PendingOnBothPaths ==
    (CalledWithId /\ script.pending_left = -1)
        => IF call.synchronous /\ call.polling_interval >= 0
           THEN pc \in {"loop", "query"} /\ response = None
                /\ (pc = "loop" => should_run)
           ELSE IF call.synchronous THEN pc = "results_raised"
           ELSE pc = "done" /\ result = None

\* C3, its case: a synchronous call is back at the head of its loop after
\* two length-0 answers of a server that never finishes.
C3_Witness ==
    /\ CalledWithId /\ call.synchronous /\ script.pending_left = -1
    /\ pc = "loop" /\ io.empty >= 2 /\ io.failed = 0

\* C4: synchronous retrieval with polling_interval = 0 against a server that
\* answers pending to the first k queries and non-pending to query k + 1
\* makes exactly k + 1 round trips (no connection failing): never more than
\* k + 1, and exactly k + 1 when the loop ends and the call returns.
C4_ExactlyKPlusOneQueries ==
    (Called /\ call.synchronous /\ call.polling_interval = 0
       /\ script.pending_left >= 0 /\ io.failed = 0
       /\ pc \in {"loop", "done"})
        => /\ io.queries <= script.pending_left + 1
           /\ io.queries = io.connects /\ io.queries = io.frames
           /\ io.queries = io.closed
           /\ io.sleeps = 0
           /\ (pc = "done" \/ ~should_run)
                => /\ io.queries = script.pending_left + 1
                   /\ io.empty = script.pending_left
                   /\ response = script.answer

\* C4, its case: the server answered on its second query and the call
\* returned after 2 round trips.
C4_Witness ==
    /\ Called /\ call.synchronous /\ call.polling_interval = 0
    /\ script.pending_left = 1 /\ io.failed = 0
    /\ pc = "done" /\ io.queries = 2 /\ result = script.answer

\* C5: the synchronous loop treats a failed connection like a pending
\* answer: after a query that yields None (length 0 or transport failure)
\* the loop runs on, with no cap on the queries, and the call never returns
\* None; once a query yields a non-pending answer the call ends with it.
C5_PollsUntilAnswered ==
    /\ [](Called /\ call.synchronous /\ pc = "loop" /\ response = None
            => should_run /\ ENABLED (SyncSleep \/ SyncQuery))
    /\ [](Called /\ call.synchronous /\ pc = "done" => result # None)
    /\ \A payload \in Payloads :
          (Called /\ call.synchronous /\ pc = "loop" /\ response = payload)
              ~> (pc = "done" /\ result = payload)

\* C5, its case: the loop goes on after a failed connection and a length-0
\* answer, its counters at their cap.
C5_Witness ==
    /\ Called /\ call.synchronous /\ pc = "loop" /\ should_run
    /\ io.failed >= 1 /\ io.empty >= 1 /\ io.queries = MaxCount

\* C8: a negative polling_interval on synchronous retrieval fails at once:
\* the call raises with no connection opened, no frame written, no sleep.
C8_NegativeIntervalFailsFast ==
    (Called /\ call.synchronous /\ call.polling_interval < 0)
        => /\ pc = "results_raised"
           /\ raised = "AssertionError"
           /\ io = NoIO
           /\ server = script

\* C8, its case: a synchronous call with polling_interval = -1 has raised.
C8_Witness ==
    /\ Called /\ call.synchronous /\ call.polling_interval = -1
    /\ pc = "results_raised"

\* C16 as stated: once a query on a handle has observed a non-pending
\* response the handle is Resolved for good: no later step sends a query
\* frame for it, and no later call reports pending.
C16_ResolvedIsTerminal ==
    /\ [][resolved > 0
            => ~(\/ io'.frames > io.frames
                 \/ calls' > calls /\ io'.frames > 0)]_vars
    /\ [](resolved > 0 /\ calls > resolved /\ pc = "done" => result # None)

\* C16 amended: once a query of a results() call has observed a non-pending
\* response, that call sends no further query and returns that response.
\* The handle keeps no Resolved state: a later results() call queries the
\* server again, and reports None only when its connection fails (on the
\* asynchronous path).
C16_ResolvedWithinCall ==
    /\ [][(resolved > 0 /\ resolved = calls /\ calls' = calls)
            => /\ io'.queries = io.queries
               /\ io'.frames = io.frames
               /\ pc' = "done"
               /\ result' # None
               /\ result' = server.answer]_vars
    /\ [](resolved > 0 /\ calls > resolved /\ pc = "done" /\ result = None
            => ~call.synchronous /\ io.failed = 1)

\* C16, its case: after a call got the result, a later call on the same
\* handle wrote a query frame, lost its connection and returned None.
C16_Witness ==
    /\ resolved > 0 /\ calls > resolved
    /\ pc = "done" /\ result = None
    /\ io.frames = 1 /\ io.failed = 1

(***************************************************************************)
(* The properties of request_estimate (AssemblySpec).                      *)
(***************************************************************************)
\* request_estimate has returned or raised.
Estimated == pc \in {"idle", "estimate_raised"}

\* The batch of the call, in nested order (empty without a property set).
Batch ==
    IF args.property_set = NoneObj THEN <<>>
    ELSE NestedOrder(args.property_set.properties)

\* The workflow_schemas the caller populated before the call.
CallerPopulated ==
    IF args.options = NoneObj THEN EmptyDict ELSE args.options.workflow_schemas

\* C6: a transport failure during the submission gives an absent request
\* id, the submission is not retried, and request_estimate hands back no
\* Request handle (none whose id is None).
C6_NoHandleWithoutId ==
    (Estimated /\ io.failed > 0)
        => /\ io.connects = 1
           /\ request = NoneObj

\* C7: request_estimate raises a ValueError, with no connection opened and
\* no frame written, when the property set or the force field is missing or
\* a property of the batch has a type the registry does not hold, whether
\* or not the caller supplied a workflow_schemas entry for that type.
C7_ConfigurationErrorBeforeIO ==
    (/\ Estimated
     /\ \/ args.property_set = NoneObj
        \/ args.force_field = None
        \/ \E i \in DOMAIN Batch :
              TypeName(Batch[i]) \notin registered_properties)
        => /\ pc = "estimate_raised"
           /\ raised = "ValueError"
           /\ io = NoIO
           /\ request = NoneObj
           /\ estimate.submission = NoneObj

\* C7, its case: the call raised on a property of an unregistered type for
\* which the caller had supplied a workflow_schemas entry, after a property
\* of a registered type.
C7_Witness ==
    /\ pc = "estimate_raised"
    /\ args.property_set # NoneObj /\ args.force_field # None
    /\ Len(Batch) = 2
    /\ Batch[1] = "Density" /\ Batch[2] = "Unsupported"
    /\ "Unsupported" \in DOMAIN CallerPopulated

\* C9: the assembly never adds to, removes from or overwrites an entry
\* workflow_schemas[type] the caller populated before the call.
C9_CallerEntriesKept ==
    (Estimated /\ args.options # NoneObj)
        => \A type_name \in DOMAIN CallerPopulated :
              /\ type_name \in DOMAIN estimate.options.workflow_schemas
              /\ estimate.options.workflow_schemas[type_name]
                    = CallerPopulated[type_name]

\* C9, its case: a batch of a type the caller gave a workflow for and of a
\* type assembled from its defaults was submitted.
C9_Witness ==
    /\ pc = "idle"
    /\ "Density" \in DOMAIN CallerPopulated
    /\ CallerPopulated["Density"] # EmptyDict
    /\ Batch = <<"DielectricConstant", "Density">>
    /\ "DielectricConstant" \in DOMAIN estimate.options.workflow_schemas

\* C10: with allow_protocol_merging False, every protocol of every workflow
\* the call recorded in the workflow_schemas of the submission's options has
\* its '.allow_merging' input False, whatever the default.
C10_MergingForcedOff ==
    (pc = "idle" /\ ~estimate.options.allow_protocol_merging)
        => LET schemas == estimate.submission.options.workflow_schemas
           IN  \A type_name \in DOMAIN schemas \ DOMAIN CallerPopulated :
                 \A layer \in DOMAIN schemas[type_name] :
                    schemas[type_name][layer] # NoneObj
                       => \A name \in DOMAIN schemas[type_name][layer].protocols :
                             ~schemas[type_name][layer].protocols[name].allow_merging

\* The registered types of the batch the loop reached: those before the
\* first property of an unregistered type.
ReachedTypes ==
    IF args.property_set = NoneObj \/ args.force_field = None THEN {}
    ELSE {Batch[i] : i \in {k \in DOMAIN Batch :
                                \A j \in 1..k :
                                    TypeName(Batch[j]) \in registered_properties}}

\* The reached types the caller had no entry for: the types assembled from
\* their defaults.
AssembledTypes == ReachedTypes \ DOMAIN CallerPopulated

\* The layers of options.allowed_calculation_layers after the call.
AllowedLayers ==
    {estimate.options.allowed_calculation_layers[i] :
        i \in DOMAIN estimate.options.allowed_calculation_layers}

\* The layers that have a key under workflow_schemas[type_name].
LayerKeys(type_name) ==
    IF type_name \in DOMAIN estimate.options.workflow_schemas
    THEN DOMAIN estimate.options.workflow_schemas[type_name]
    ELSE {}

\* C11 as stated: for every ordering of allowed_calculation_layers and every
\* type assembled from its defaults, workflow_schemas[type] has an entry for
\* exactly the allowed layers whose default workflow is not None; a layer
\* whose default is None contributes nothing.
C11_OnlyNonAbsentDefaults ==
    Estimated
        => \A type_name \in AssembledTypes :
              LayerKeys(type_name)
                 = {layer \in AllowedLayers :
                       get_default_workflow_schema(type_name, layer) # NoneObj}

\* C11 amended: for every ordering of allowed_calculation_layers and every
\* type assembled from its defaults, workflow_schemas[type] has a key for
\* every allowed layer and for no other layer, and the value under the key
\* is the layer's default workflow: a workflow for exactly the allowed
\* layers whose default is not None, and None for an allowed layer whose
\* default is None.
C11_AllowedLayersRecorded ==
    Estimated
        => \A type_name \in AssembledTypes :
              /\ LayerKeys(type_name) = AllowedLayers
              /\ \A layer \in LayerKeys(type_name) :
                    estimate.options.workflow_schemas[type_name][layer]
                       = get_default_workflow_schema(type_name, layer)
              /\ {layer \in LayerKeys(type_name) :
                     estimate.options.workflow_schemas[type_name][layer]
                        # NoneObj}
                    = {layer \in AllowedLayers :
                          get_default_workflow_schema(type_name, layer)
                             # NoneObj}

\* C11, its case: a type was assembled from its defaults for the list
\* (Simulation, Surrogate): its Simulation workflow is recorded and None is
\* recorded under Surrogate, and Reweighting has no key.
C11_Witness ==
    /\ pc = "idle"
    /\ "DielectricConstant" \in AssembledTypes
    /\ estimate.options.allowed_calculation_layers
          = <<SimulationLayer, SurrogateLayer>>
    /\ LayerKeys("DielectricConstant") = {SimulationLayer, SurrogateLayer}
    /\ estimate.options.workflow_schemas["DielectricConstant"][SurrogateLayer]
          = NoneObj

\* C12 as stated: a property type is skipped only when it already has a non-empty
\* entry in workflow_schemas; a type with no entry, or with an entry that is
\* an empty mapping, gets its defaults assembled for each allowed layer.
C12_EmptyEntryAssembled ==
    Estimated
        => \A type_name \in ReachedTypes :
              (type_name \notin DOMAIN CallerPopulated
                 \/ CallerPopulated[type_name] = EmptyDict)
                 => \A layer \in AllowedLayers :
                       get_default_workflow_schema(type_name, layer) # NoneObj
                          => /\ layer \in LayerKeys(type_name)
                             /\ estimate.options.workflow_schemas[type_name][layer]
                                   = get_default_workflow_schema(type_name,
                                                                 layer)

\* C12 amended: a property type is skipped whenever its name is already a
\* key of workflow_schemas, also when the entry under it is an empty mapping:
\* the entry is left as it was and no workflow of the type is validated;
\* only a type with no entry gets its defaults recorded for each allowed
\* layer.
C12_SkippedWhenKeyPresent ==
    Estimated
        => /\ \A type_name \in ReachedTypes :
                IF type_name \in DOMAIN CallerPopulated
                THEN estimate.options.workflow_schemas[type_name]
                        = CallerPopulated[type_name]
                ELSE \A layer \in AllowedLayers :
                        /\ layer \in LayerKeys(type_name)
                        /\ estimate.options.workflow_schemas[type_name][layer]
                              = get_default_workflow_schema(type_name, layer)
           /\ \A i \in DOMAIN estimate.workflows :
                estimate.workflows[i].property_type
                   \notin DOMAIN CallerPopulated

\* C12, its case: the caller's empty entry for Density is still empty after
\* a call that assembled the defaults of DielectricConstant.
C12_Witness ==
    /\ pc = "idle"
    /\ Batch = <<"Density", "DielectricConstant">>
    /\ "Density" \in DOMAIN CallerPopulated
    /\ CallerPopulated["Density"] = EmptyDict
    /\ estimate.options.workflow_schemas["Density"] = EmptyDict
    /\ SimulationLayer \in LayerKeys("DielectricConstant")
    /\ estimate.options.workflow_schemas["DielectricConstant"][SimulationLayer]
          # NoneObj

C14_RoundTripKeepsHandle ==
    restored # NoneObj
        => /\ restored.raised = None
           /\ restored.value = request

\* C15: reading the properties id, server_address and server_port of a
\* handle terminates and returns the values the handle was constructed
\* with: no read raises.
C15_AccessorsReturn ==
    access # NoneObj => access.raised = None

(***************************************************************************)
(* The properties of the network operations (Spec).                        *)
(***************************************************************************)
\* A submission or a query has run on the wire; io.last is what it did.
Operated == io.last # NoneObj

\* The last operation ended on its normal path: nothing raised, no stream
\* closed under it.
NormalPath == Operated /\ io.last.raised = None /\ io.last.failed = 0

\* C17: every submit or query operation makes exactly one connection
\* attempt of its own, so never holds two connections and never uses the
\* connection of an earlier operation; on its normal path it opened the
\* connection, wrote exactly one frame on it and closed it before
\* returning, so that no connection of the call is left open.
C17_OneConnectionPerOperation ==
    /\ Operated
          => /\ io.last.connects = 1
             /\ io.last.opened <= 1
             /\ io.last.frames <= io.last.opened
             /\ io.last.closed <= io.last.frames
    /\ NormalPath
          => /\ io.last.opened = 1
             /\ io.last.frames = 1
             /\ io.last.closed = 1
    /\ (Estimated /\ Operated) => io.connects = 1
    /\ (Called /\ io.queries < MaxCount) => io.connects = io.queries
    /\ (Called /\ io.queries < MaxCount /\ io.failed = 0 /\ raised = None)
          => io.closed = io.opened /\ io.frames = io.opened

\* C17, its case: a synchronous call made three queries, each on a
\* connection of its own that it closed, and returned.
C17_Witness ==
    /\ Called /\ call.synchronous /\ pc = "done" /\ NormalPath
    /\ io.queries = 3 /\ io.connects = 3 /\ io.closed = 3 /\ io.failed = 0

\* C18: for both operations, after writing the frame the client reads
\* exactly 4 bytes of response length; if the decoded length is 0 the
\* operation yields None without reading or decoding a payload and without
\* raising, otherwise it reads exactly that many bytes as the payload.
C18_LengthZeroIsAbsent ==
    (Operated /\ io.last.header_bytes > 0)
        => /\ io.last.header_bytes = 4
           /\ io.last.length = 0
                 => /\ io.last.value = None
                    /\ io.last.raised = None
                    /\ io.last.payload_reads = 0
                    /\ io.last.decodes = 0
           /\ (io.last.length > 0 /\ io.last.failed = 0)
                 => /\ io.last.payload_reads = 1
                    /\ io.last.payload_bytes = io.last.length

\* C19: every request frame is message_type ++ payload_length ++ payload,
\* where payload_length is the byte length of the payload that follows; a
\* submission frame carries the Submission type and the serialised
\* submission, a query frame the Query type, distinct from it, and the raw
\* bytes of the request id.
C19_FrameLayout ==
    /\ pack_int(Submission) # pack_int(Query)
    /\ (Operated /\ io.last.frame # NoneObj)
          => /\ DOMAIN io.last.frame = {"message_type", "length", "payload"}
             /\ Len(io.last.frame.message_type) = 4
             /\ Len(io.last.frame.length) = 4
             /\ unpack_int(io.last.frame.length)
                   = io.last.frame.payload.length
             /\ io.last.op = "submission"
                   => /\ unpack_int(io.last.frame.message_type) = Submission
                      /\ io.last.frame.payload
                            = encoded_json(estimate.submission)
             /\ io.last.op = "query"
                   => /\ unpack_int(io.last.frame.message_type) = Query
                      /\ io.last.frame.payload.content = request.id
                      /\ io.last.frame.payload.length = ByteLen(request.id)

\* C19, its case: a query wrote its frame for the id request-1.
C19_Witness ==
    /\ Called /\ Operated /\ io.last.op = "query" /\ io.last.frames = 1
    /\ request.id = "request-1"
    /\ io.last.frame.length = <<0, 0, 0, 9>>

\* C20: a connection failure at any point of a query operation (connection
\* refused, stream closed on the write, before the header or before the
\* payload is fully read) makes the query yield None; it is logged and
\* never raised: an asynchronous call returns None, a synchronous one
\* polls on.
C20_QueryFailureIsAbsent ==
    (Called /\ Operated /\ io.last.op = "query" /\ io.last.failed = 1)
        => /\ io.last.value = None
           /\ io.last.raised = None
           /\ io.last.logged
           /\ raised = None
           /\ IF call.synchronous
              THEN pc \in {"loop", "query"} /\ response = None
                   /\ (pc = "loop" => should_run)
              ELSE pc = "done" /\ result = None

\* C20, its case: the stream of an asynchronous query closed while the
\* payload of a finished job was being read, and the call returned None.
C20_Witness ==
    /\ Called /\ ~call.synchronous /\ Operated /\ io.last.op = "query"
    /\ io.last.failed = 1 /\ io.last.header_bytes = 4
    /\ io.last.length > 0 /\ io.last.payload_bytes = 0
    /\ pc = "done" /\ result = None

\* The number of properties in the groups before group i.
RECURSIVE Offset(_, _)
Offset(groups, i) ==
    IF i <= 1 THEN 0 ELSE Offset(groups, i - 1) + Len(groups[i - 1])

\* C21: the properties of the submission request_estimate builds are the
\* properties of the caller's grouped collection, each exactly once, in
\* nested iteration order: property j of group i stands at the position
\* that follows all the properties of the groups before i and the first
\* j - 1 properties of group i.
C21_NestedOrderKept ==
    (Estimated /\ estimate.submission # NoneObj)
        => LET groups == args.property_set.properties
               properties == estimate.submission.properties
           IN  /\ Len(properties) = Offset(groups, Len(groups) + 1)
               /\ \A i \in DOMAIN groups :
                     \A j \in DOMAIN groups[i] :
                        properties[Offset(groups, i) + j] = groups[i][j]

\* C21, its case: a collection of two groups, of different types, was
\* submitted.
C21_Witness ==
    /\ pc = "idle"
    /\ args.property_set.properties
          = <<<<"DielectricConstant">>, <<"Density">>>>
    /\ estimate.submission.properties = <<"DielectricConstant", "Density">>

(***************************************************************************)
(* The properties of the client and its handles (HandleSpec).              *)
(***************************************************************************)
\* The caller holds a client: the constructor returned.
Constructed == client # NoneObj /\ client.raised = None

\* C22: every client, and every handle made from it, has a non-empty
\* server_address: constructing a client from connection options whose
\* server_address is missing or empty fails with a configuration error
\* before any I/O.
C22_AddressNonEmpty ==
    /\ Constructed
         => client.value.connection_options.server_address \notin {None, ""}
    /\ (request # NoneObj /\ Constructed /\ request.client = client.value)
         => request.server_address \notin {None, ""}

(***************************************************************************)
(* The frame of request_estimate on the options (AssemblySpec).            *)
(***************************************************************************)
\* The options object as the call found it: the caller's, or the one
\* PropertyEstimatorOptions() gives when the caller passed None.
OptionsBefore ==
    IF args.options = NoneObj
    THEN [allowed_calculation_layers |->
              <<"SurrogateLayer", "ReweightingLayer", "SimulationLayer">>,
          relative_uncertainty_tolerance |-> 1,
          allow_protocol_merging |-> TRUE,
          gradient_properties |-> List(<<>>)]
    ELSE args.options

\* The ordering metadata of options is what it was before the call.
MetadataKept(options) ==
    /\ options.allowed_calculation_layers
          = OptionsBefore.allowed_calculation_layers
    /\ options.relative_uncertainty_tolerance
          = OptionsBefore.relative_uncertainty_tolerance
    /\ options.allow_protocol_merging = OptionsBefore.allow_protocol_merging
    /\ options.gradient_properties = OptionsBefore.gradient_properties

\* C23: allowed_calculation_layers is [Surrogate, Reweighting, Simulation]
\* when the caller leaves it unset, and request_estimate never reorders,
\* adds to or removes from allowed_calculation_layers and never changes
\* relative_uncertainty_tolerance, allow_protocol_merging or
\* gradient_properties of the options it works on and sends, in the first
\* call and in a second one on the same object.
C23_OrderingMetadataKept ==
    /\ (Estimated /\ estimate.options # NoneObj)
          => MetadataKept(estimate.options)
    /\ (Estimated /\ estimate.submission # NoneObj)
          => MetadataKept(estimate.submission.options)
    /\ (rerun # NoneObj /\ rerun.submission # NoneObj)
          => MetadataKept(rerun.submission.options)

\* A submission is sent with default workflows filled in for the caller's
\* list of two layers, merging switched off, and a second one after it.
C23_Witness ==
    /\ pc = "idle"
    /\ args.options # NoneObj
    /\ args.options.allowed_calculation_layers
          = <<"ReweightingLayer", "SimulationLayer">>
    /\ ~args.options.allow_protocol_merging
    /\ estimate.submission.options.workflow_schemas
          # args.options.workflow_schemas
    /\ estimate.submission.options.allowed_calculation_layers
          = <<"ReweightingLayer", "SimulationLayer">>
    /\ rerun # NoneObj
    /\ rerun.submission # NoneObj

(***************************************************************************)
(* The properties of the state methods (StateMethodsSpec).                 *)
(***************************************************************************)
\* The wire model has been taken through the whole round trip.
Recreated == pickled # NoneObj /\ pickled.recreated_state # NoneObj

\* C24: state round trip: for each wire model (PropertyEstimatorOptions,
\* PropertyEstimatorSubmission, PropertyEstimatorResult,
\* PropertyEstimatorConnectionOptions), __setstate__ on a fresh object with
\* the __getstate__ of an object x yields an object whose __getstate__
\* equals that of x, key by key.
C24_StateRoundTrip ==
    Recreated
        => /\ DOMAIN pickled.recreated_state = DOMAIN pickled.state
           /\ \A key \in DOMAIN pickled.state :
                 pickled.recreated_state[key] = pickled.state[key]

\* A result whose every field differs from a fresh result's has made the
\* round trip; its id travelled under the key 'id:'.
C24_Witness ==
    /\ Recreated
    /\ pickled.original.kind = "PropertyEstimatorResult"
    /\ pickled.original.id = "request-1"
    /\ pickled.original.estimated_properties # EmptyDict
    /\ pickled.original.unsuccessful_properties # EmptyDict
    /\ pickled.state["id:"] = "request-1"
    /\ pickled.recreated_state["id:"] = "request-1"

(***************************************************************************)
(* The pacing of the synchronous loop (Spec).                              *)
(***************************************************************************)
\* A synchronous results() call is in progress or has ended.
InSynchronousCall ==
    /\ calls > 0
    /\ call.synchronous
    /\ pc \in {"loop", "query", "done", "results_raised"}

\* C25: in the synchronous loop with polling_interval > 0, exactly one
\* sleep precedes every query, the first included: sleeps and queries
\* alternate strictly, starting with a sleep (between a sleep and its query
\* the sleeps are one ahead, everywhere else they are level); with
\* polling_interval = 0 the loop never sleeps.
C25_OneSleepBeforeEachQuery ==
    InSynchronousCall
        => /\ call.polling_interval > 0
                => IF pc = "query"
                   THEN io.sleeps = Inc(io.queries)
                   ELSE io.sleeps = io.queries
           /\ call.polling_interval = 0 => io.sleeps = 0

\* A call with an interval of 5 returned after three sleeps and three
\* queries, the first two answered 'pending'.
C25_Witness ==
    /\ InSynchronousCall
    /\ pc = "done"
    /\ call.polling_interval = 5
    /\ io.sleeps = 3
    /\ io.queries = 3
    /\ io.empty = 2

(***************************************************************************)
(* The validation of the default workflows (ValidationSpec).               *)
(***************************************************************************)
\* The non-absent defaults the call recorded: the entries of the types the
\* caller had not populated.
RecordedDefaults ==
    IF estimate.options = NoneObj THEN {}
    ELSE LET workflow_schemas == estimate.options.workflow_schemas
         IN  UNION {{workflow_schemas[type_name][calculation_layer] :
                        calculation_layer \in
                            DOMAIN workflow_schemas[type_name]} :
                    type_name \in
                        DOMAIN workflow_schemas \ DOMAIN CallerPopulated}
               \ {NoneObj}

\* The workflows the call passed to the validator.
Validated == {estimate.validated[k] : k \in DOMAIN estimate.validated}

\* C26: every non-absent default workflow the assembly records for a
\* property type and a layer is passed to the interface validator before
\* the submission is sent, and if the validator raises for one of them
\* request_estimate raises: no connection is opened, no frame written and
\* no handle returned.
C26_RecordedDefaultsValidated ==
    Estimated
        => /\ RecordedDefaults \subseteq Validated
           /\ Validated \cap validator # {}
                 => /\ pc = "estimate_raised"
                    /\ estimate.raised = "Exception"
                    /\ request = NoneObj
                    /\ io = NoIO

\* The validator took the first default of Density and raised on the
\* second, which the options already hold; nothing went on the wire.
C26_Witness ==
    /\ pc = "estimate_raised"
    /\ estimate.raised = "Exception"
    /\ Len(estimate.validated) = 2
    /\ estimate.validated[1] \notin validator
    /\ estimate.validated[2] \in validator
    /\ estimate.validated[2] \in RecordedDefaults
    /\ io = NoIO

(***************************************************************************)
(* The identity of a handle (HandleSpec).                                  *)
(***************************************************************************)
\* The address and port a handle was constructed with.
HandleAddress(self) ==
    [address |-> self.server_address, port |-> self.server_port]

\* The handle's client is not the client the caller holds: the handle
\* built it.
OwnsClient ==
    /\ request # NoneObj
    /\ ~Constructed \/ request.client # client.value

\* C27: a handle returned by request_estimate carries exactly the id
\* decoded from the submission response; no step after that, a results()
\* call included, changes the handle (its id, address, port or client);
\* every query issued through the handle is sent with the handle's id as
\* payload to the address and port of the handle's client; and a handle
\* constructed without a client has a client of its own with the handle's
\* address and port.
C27_HandleIdentity ==
    /\ [](/\ (request # NoneObj /\ Operated /\ io.last.op = "submission")
                => request.id = io.last.value
          /\ (request # NoneObj /\ Operated /\ io.last.op = "query")
                => /\ io.last.to = Connect(request.client)
                   /\ io.last.frame # NoneObj
                         => io.last.frame = Frame(Query, encode(request.id))
          /\ OwnsClient => Connect(request.client) = HandleAddress(request))
    /\ [][request # NoneObj => request' = request]_vars

\* A handle constructed without a client for request-2 at 10.0.0.1:8001,
\* while the caller holds a client for another server, has sent a query.
C27_Witness ==
    /\ Constructed
    /\ OwnsClient
    /\ Connect(client.value) = [address |-> "localhost", port |-> 8000]
    /\ request.id = "request-2"
    /\ Called /\ Operated /\ io.last.op = "query" /\ io.last.frames = 1
    /\ io.last.to = [address |-> "10.0.0.1", port |-> 8001]
    /\ io.last.frame.payload.content = "request-2"

(***************************************************************************)
(* The options after a failed assembly (AssemblySpec).                     *)
(***************************************************************************)
\* request_estimate failed on a property of an unsupported type, the caller
\* having passed an options object.
FailedOnUnsupported ==
    /\ pc = "estimate_raised"
    /\ args.options # NoneObj
    /\ ~MissingArguments(args.property_set, args.force_field)
    /\ \E i \in DOMAIN Batch : TypeName(Batch[i]) \notin registered_properties

\* The supported types of the batch that occur only after the offending
\* property.
UnreachedTypes ==
    ({TypeName(Batch[i]) : i \in DOMAIN Batch} \cap registered_properties)
        \ ReachedTypes

\* C28: when request_estimate fails because a property of an unsupported
\* type is met, the caller's options object is not rolled back: for every
\* supported type that precedes the offending property (and that the
\* caller had not populated) it holds the default entry of every allowed
\* layer, and it holds no entry for a type that occurs only after the
\* offending property (unless the caller put one there); nothing was sent.
C28_NoRollback ==
    FailedOnUnsupported
        => /\ estimate.raised = "ValueError"
           /\ \A type_name \in AssembledTypes :
                 \A calculation_layer \in AllowedLayers :
                    /\ calculation_layer \in LayerKeys(type_name)
                    /\ estimate.options.workflow_schemas[type_name]
                                                        [calculation_layer]
                          = get_default_workflow_schema(type_name,
                                                        calculation_layer)
           /\ \A type_name \in UnreachedTypes \ DOMAIN CallerPopulated :
                 type_name \notin DOMAIN estimate.options.workflow_schemas
           /\ request = NoneObj
           /\ io = NoIO

\* The call met Density, an unsupported property and DielectricConstant:
\* the caller's options, empty before, hold the defaults of Density and
\* nothing for DielectricConstant.
C28_Witness ==
    /\ FailedOnUnsupported
    /\ Batch = <<"Density", "Unsupported", "DielectricConstant">>
    /\ CallerPopulated = EmptyDict
    /\ AllowedLayers = {ReweightingLayer, SimulationLayer}
    /\ DOMAIN estimate.options.workflow_schemas = {"Density"}
    /\ LayerKeys("Density") = {ReweightingLayer, SimulationLayer}

=============================================================================
